---------------------------- MODULE Spec2Model ----------------------------
(* Tetris game sessions of rajamohamed/tetris-game.                        *)
(*   richer ruleset : src/unnamed/part_000 (bag, 3-piece preview, hold)    *)
(*   simple ruleset : src/src/App.tsx      (random piece, 1-piece preview) *)
(*                    src/unnamed/part_001 is App.tsx without the pause    *)
(* Coordinates are the code's 0-based (x, y); TLA+ sequences are 1-based,  *)
(* so grid[y][x] of the code is grid[y + 1][x + 1] here.                   *)
EXTENDS Integers, Sequences, FiniteSets, TLC

VARIABLES
  ruleset,     \* "rich" (part_000) | "simple" (App.tsx) | "pure", "bag", "random" (probes)
  grid,        \* useState grid
  piece,       \* useState piece (NoPiece = null)
  nextPieces,  \* useState nextPieces (richer ruleset)
  nextPiece,   \* useState nextPiece (simple ruleset)
  holdPiece,   \* useState holdPiece
  canHold,     \* useState canHold
  score, level, lines,
  started, over, countdown, paused,
  bag,         \* PieceBag.bag of pieceBag.current
  timers,      \* local counters t of the live startGame intervals
  period,      \* delay in ms of the live gravity interval (Null = none)
  rearmed,     \* the last handler made the gravity loop effect set a new interval
  locks,       \* number of locks of this session (exploration depth)
  intents,     \* number of gameplay intents of this session (exploration depth)
  last,        \* the last handler that ran and what it did
  result       \* the value returned by the last function probe

vars == <<ruleset, grid, piece, nextPieces, nextPiece, holdPiece, canHold,
          score, level, lines, started, over, countdown, paused, bag,
          timers, period, rearmed, locks, intents, last, result>>

---------------------------------------------------------------------------
(* Constants of the program *)
ROWS == 20
COLS == 10
START_SPEED == 500

NTypes == 7      \* SHAPES.length, COLORS.length

SHAPES ==
  << << <<1,1>>, <<1,1>> >>,           \* O
     << <<1,1,1,1>> >>,                \* I
     << <<0,1,0>>, <<1,1,1>> >>,       \* T
     << <<0,1,1>>, <<1,1,0>> >>,       \* S
     << <<1,1,0>>, <<0,1,1>> >>,       \* Z
     << <<1,0,0>>, <<1,1,1>> >>,       \* L
     << <<0,0,1>>, <<1,1,1>> >> >>     \* J

NoPiece == [shape |-> <<>>, x |-> 0, y |-> 0, colorIdx |-> -1]
Null == -1       \* countdown === null

emptyGrid == [r \in 1..ROWS |-> [c \in 1..COLS |-> 0]]

---------------------------------------------------------------------------
(* Bounds of the exploration *)
MaxLocks == 1    \* locks explored per session
MaxIntents == 1  \* sideways, rotate, hard-drop and hold intents explored per session
RandGrain == 7   \* Math.random() yields n / RandGrain, n in 0..RandGrain-1
ProbeRows == 3   \* rows of a probe board that vary
MaxDraws == 8    \* draws from one PieceBag

---------------------------------------------------------------------------
(* Shape library *)

\* part_000 rotate: rotated[j][rows-1-i] = shape[i][j]
rotate(shape) ==
  LET rows == Len(shape)
      cols == Len(shape[1])
  IN  [j \in 1..cols |-> [k \in 1..rows |-> shape[rows + 1 - k][j]]]

Reverse(s) == [i \in 1..Len(s) |-> s[Len(s) + 1 - i]]

\* a rotate that reverses the rows and forgets to transpose
rotateSimpleMut(m) == Reverse(m)

\* App.tsx rotate: m[0].map((_,i) => m.map(r => r[i]).reverse())
rotateSimple(m) ==
  [i \in 1..Len(m[1]) |-> Reverse([r \in 1..Len(m) |-> m[r][i]])]

\* a piece that is built one row above the board
MakePieceMut(colorIdx) ==
  LET shape == SHAPES[colorIdx + 1]
  IN  [shape |-> shape, x |-> (COLS - Len(shape[1])) \div 2, y |-> -1,
       colorIdx |-> colorIdx]

\* x: Math.floor((COLS - shape[0].length) / 2), y: 0
MakePiece(colorIdx) ==
  LET shape == SHAPES[colorIdx + 1]
  IN  [shape |-> shape, x |-> (COLS - Len(shape[1])) \div 2, y |-> 0,
       colorIdx |-> colorIdx]

---------------------------------------------------------------------------
(* Board: collision, merge, line clearing *)

\* collides with the left wall test off by one
collidesMut(g, p) ==
  \E dy \in 0..(Len(p.shape) - 1) :
    \E dx \in 0..(Len(p.shape[dy + 1]) - 1) :
      /\ p.shape[dy + 1][dx + 1] # 0
      /\ LET newX == p.x + dx
             newY == p.y + dy
         IN  \/ newX <= 0
             \/ newX >= COLS
             \/ newY >= ROWS
             \/ (newY >= 0 /\ g[newY + 1][newX + 1] # 0)

\* collides with the floor test off by one
collidesFloorMut(g, p) ==
  \E dy \in 0..(Len(p.shape) - 1) :
    \E dx \in 0..(Len(p.shape[dy + 1]) - 1) :
      /\ p.shape[dy + 1][dx + 1] # 0
      /\ LET newX == p.x + dx
             newY == p.y + dy
         IN  \/ newX < 0
             \/ newX >= COLS
             \/ newY > ROWS
             \/ (newY >= 0 /\ newY < ROWS /\ g[newY + 1][newX + 1] # 0)

\* part_000 collides
collides(g, p) ==
  \E dy \in 0..(Len(p.shape) - 1) :
    \E dx \in 0..(Len(p.shape[dy + 1]) - 1) :
      /\ p.shape[dy + 1][dx + 1] # 0
      /\ LET newX == p.x + dx
             newY == p.y + dy
         IN  \/ newX < 0
             \/ newX >= COLS
             \/ newY >= ROWS
             \/ (newY >= 0 /\ g[newY + 1][newX + 1] # 0)

\* App.tsx collides
collidesSimple(g, p) ==
  \E dy \in 0..(Len(p.shape) - 1) :
    \E dx \in 0..(Len(p.shape[dy + 1]) - 1) :
      /\ p.shape[dy + 1][dx + 1] # 0
      /\ \/ p.y + dy >= ROWS
         \/ p.x + dx < 0
         \/ p.x + dx >= COLS
         \/ (p.y + dy >= 0 /\ g[p.y + dy + 1][p.x + dx + 1] # 0)

\* one write merged[y][x] = v of the code; like the JS arrays, a row grows
\* when x is past its end, and a write to a row that does not exist is lost
\* here (the code throws there)
WriteCell(g, y, x, v) ==
  IF y + 1 \notin 1..Len(g) THEN g
  ELSE IF x + 1 \in 1..Len(g[y + 1]) THEN [g EXCEPT ![y + 1][x + 1] = v]
  ELSE IF x + 1 > Len(g[y + 1])
       THEN [g EXCEPT ![y + 1] =
               [c \in 1..(x + 1) |->
                  IF c <= Len(g[y + 1]) THEN g[y + 1][c]
                  ELSE IF c = x + 1 THEN v ELSE 0]]
       ELSE g

\* the forEach loops of merge, cell k of the shape in row-major order
RECURSIVE MergeFrom(_, _, _)
MergeFrom(g, p, k) ==
  LET w  == Len(p.shape[1])
      dy == k \div w
      dx == k % w
  IN  IF k >= Len(p.shape) * w THEN g
      ELSE IF p.shape[dy + 1][dx + 1] # 0 /\ p.y + dy >= 0
           THEN MergeFrom(WriteCell(g, p.y + dy, p.x + dx, p.colorIdx + 1), p, k + 1)
           ELSE MergeFrom(g, p, k + 1)

\* merge that also writes the cells of the shape that are 0
mergeMut(g, p) ==
  MergeFrom(g, [p EXCEPT !.shape = [i \in 1..Len(p.shape) |->
                                      [j \in 1..Len(p.shape[1]) |-> 1]]], 0)

\* part_000 lockPiece: the merge into a copy of the grid
merge(g, p) == MergeFrom(g, p, 0)

\* a merge that writes the colour index itself, not the index plus one
mergeSimpleMut(g, p) == MergeFrom(g, [p EXCEPT !.colorIdx = p.colorIdx - 1], 0)

\* App.tsx merge
mergeSimple(g, p) == MergeFrom(g, p, 0)

\* the board passed to merge as the call leaves it: both files write into
\* the copy g.map(r => [...r]), never into g
ArgAfterMerge(g, p) == g

\* row.some(cell => cell === 0)
HasEmptyCell(row) == \E c \in 1..Len(row) : row[c] = 0

\* a refill that stops one row short once rows were removed
UnshiftMut(kept) ==
  IF Len(kept) < ROWS
  THEN [i \in 1..(ROWS - 1 - Len(kept)) |-> [c \in 1..COLS |-> 0]] \o kept
  ELSE kept

\* kept.unshift(Array(COLS).fill(0)) while kept.length < ROWS
RECURSIVE Unshift(_)
Unshift(kept) ==
  IF Len(kept) < ROWS THEN Unshift(<<[c \in 1..COLS |-> 0]>> \o kept) ELSE kept

\* clearLines that puts the empty rows below the kept ones
clearLinesMut(g) ==
  LET kept == SelectSeq(g, HasEmptyCell)
  IN  [newGrid |-> kept \o [i \in 1..(ROWS - Len(kept)) |-> [c \in 1..COLS |-> 0]],
       cleared |-> ROWS - Len(kept)]

\* part_000 clearLines
clearLines(g) ==
  LET kept == SelectSeq(g, HasEmptyCell)
  IN  [newGrid |-> Unshift(kept), cleared |-> ROWS - Len(kept)]

\* App.tsx clearLines
clearLinesSimple(g) ==
  LET kept == SelectSeq(g, HasEmptyCell)
  IN  [newGrid |-> Unshift(kept), cleared |-> ROWS - Len(kept)]

\* calculateScore multiplying by the level, not the level plus one
calculateScoreMut(n, lvl) ==
  LET baseScore == IF n = 1 THEN 100
                   ELSE IF n = 2 THEN 300
                   ELSE IF n = 3 THEN 500
                   ELSE IF n = 4 THEN 800
                   ELSE 0
  IN  baseScore * lvl

\* part_000 calculateScore
calculateScore(n, lvl) ==
  LET baseScore == IF n = 1 THEN 100
                   ELSE IF n = 2 THEN 300
                   ELSE IF n = 3 THEN 500
                   ELSE IF n = 4 THEN 800
                   ELSE 0
  IN  baseScore * (lvl + 1)

\* a drop loop that runs at most once
DropFromMut(g, p) ==
  IF ~collides(g, [p EXCEPT !.y = p.y + 1]) THEN [p EXCEPT !.y = p.y + 1] ELSE p

\* part_000 getGhostPiece / the while loop of hardDrop
RECURSIVE DropFrom(_, _)
DropFrom(g, p) ==
  IF ~collides(g, [p EXCEPT !.y = p.y + 1])
  THEN DropFrom(g, [p EXCEPT !.y = p.y + 1]) ELSE p

\* a ghost that moves one row at most
getGhostPieceMut(p, g) == DropFromMut(g, p)

\* part_000 getGhostPiece
getGhostPiece(p, g) == DropFrom(g, p)

---------------------------------------------------------------------------
(* Piece supply *)

\* a swap that loses the second assignment
SwapMut(b, i, j) == [b EXCEPT ![i + 1] = b[j + 1]]

\* [this.bag[i], this.bag[j]] = [this.bag[j], this.bag[i]], 0-based i, j
Swap(b, i, j) == [b EXCEPT ![i + 1] = b[j + 1], ![j + 1] = b[i + 1]]

\* Math.floor(Math.random() * (i + 1)) with Math.random() = n / RandGrain
RandomIndex(n, i) == (n * (i + 1)) \div RandGrain

\* the Fisher-Yates loop of refillBag from index i down to 1; rnd[i] is the
\* numerator of the random number drawn at index i
RECURSIVE Shuffle(_, _, _)
Shuffle(b, i, rnd) ==
  IF i > 0 THEN Shuffle(Swap(b, i, RandomIndex(rnd[i], i)), i - 1, rnd) ELSE b

\* PieceBag.refillBag
refillBag(rnd) == Shuffle(<<0, 1, 2, 3, 4, 5, 6>>, NTypes - 1, rnd)

\* the random streams a session draws its shuffles from: always the lowest
\* number (every swap goes to index 0) or always the highest (no swap)
GameStreams ==
  { [i \in 1..(NTypes - 1) |-> 0], [i \in 1..(NTypes - 1) |-> RandGrain - 1] }

\* PieceBag.next: the possible results [piece, bag] of one draw
BagNext(b) ==
  LET full == IF Len(b) = 0 THEN {refillBag(rnd) : rnd \in GameStreams} ELSE {b}
  IN  { [piece |-> MakePiece(nb[Len(nb)]), bag |-> SubSeq(nb, 1, Len(nb) - 1)] :
          nb \in full }

\* new PieceBag()
NewBags == {refillBag(rnd) : rnd \in GameStreams}

\* [pieceBag.current.next(), pieceBag.current.next(), pieceBag.current.next()]
InitialDraws(b) ==
  UNION { UNION { { [pieces |-> <<d1.piece, d2.piece, d3.piece>>, bag |-> d3.bag] :
                      d3 \in BagNext(d2.bag) } :
                  d2 \in BagNext(d1.bag) } :
          d1 \in BagNext(b) }

---------------------------------------------------------------------------
(* Session state shared by the rulesets *)

Did(op, lock, n) == [op |-> op, lock |-> lock, n |-> n]

NoResult == [fn |-> "none"]

\* level progression effect of part_000: Math.floor(lines / 10)
\* a level that steps one line early
LevelOfMut(l) == (l + 1) \div 10

LevelOf(l) == l \div 10

\* Math.max(a, b)
MathMax(a, b) == IF a >= b THEN a ELSE b

\* part_000 gravity loop: Math.max(100, START_SPEED - level * 30)
speed(lvl) == MathMax(100, START_SPEED - lvl * 30)

\* App.tsx gravity loop: Math.max(100, START_SPEED - level * 20)
speedSimple(lvl) == MathMax(100, START_SPEED - lvl * 20)

\* a gravity effect without level among its dependencies: the interval that
\* is live keeps its delay
GravityLoopMut ==
  /\ period' = IF started' /\ ~over' /\ ~paused' /\ piece' # NoPiece
               THEN (IF period # Null THEN period ELSE speed(level'))
               ELSE Null
  /\ rearmed' = (period = Null /\ period' # Null)

\* part_000 dependency array of the gravity loop effect; lockPiece is a
\* useCallback over [piece, grid, level, nextPieces]
GravityDeps == <<grid, level, started, over, paused, piece, nextPieces>>

\* part_000 setPiece / setGrid calls that pass a newly built object whatever
\* its value: hardDrop, an accepted rotatePiece, a taken holdPieceAction,
\* lockPiece
NewObjects ==
  \/ last'.op = "drop"
  \/ /\ last'.op = "rotate"
     /\ ~collides(grid, [piece EXCEPT !.shape = rotate(piece.shape)])
  \/ last'.op = "hold" /\ piece # NoPiece /\ canHold
  \/ last'.lock

\* part_000 gravity loop effect, run after a handler that changed one of its
\* dependencies: its cleanup clears the interval, and it sets a new one
\* unless !started || over || paused || !piece
GravityLoop ==
  /\ period' = IF started' /\ ~over' /\ ~paused' /\ piece' # NoPiece
               THEN speed(level') ELSE Null
  /\ rearmed' = /\ period' # Null
                /\ (GravityDeps' # GravityDeps \/ NewObjects)

\* App.tsx dependency array of the gravity loop effect
SimpleGravityDeps == <<grid, level, started, over, nextPiece, paused>>

\* App.tsx gravity loop effect: a new interval unless !started || over || paused
SimpleGravityLoop ==
  /\ period' = IF started' /\ ~over' /\ ~paused'
               THEN speedSimple(level') ELSE Null
  /\ rearmed' = /\ period' # Null
                /\ (SimpleGravityDeps' # SimpleGravityDeps \/ last'.lock)

\* the gravity loop effect of the ruleset in play
GravityEffect == IF ruleset = "rich" THEN GravityLoop ELSE SimpleGravityLoop

\* a reset of y that keeps the column
RecentreMut(p) == [p EXCEPT !.y = 0]

\* x: Math.floor((COLS - piece.shape[0].length) / 2), y: 0
Recentre(p) == [p EXCEPT !.x = (COLS - Len(p.shape[1])) \div 2, !.y = 0]

\* boards of a game in progress: rows from `top` down are filled except for
\* a well in column 3; the lowest `ready` rows miss only the well, the rows
\* above them also miss column 0
ReadyRow == <<6, 6, 6, 0, 1, 1, 1, 1, 7, 7>>
HoleRow  == <<0, 6, 6, 0, 1, 1, 1, 1, 7, 7>>
StackBoard(top, ready) ==
  [r \in 1..ROWS |->
     IF r - 1 < top THEN [c \in 1..COLS |-> 0]
     ELSE IF r - 1 >= ROWS - ready THEN ReadyRow ELSE HoleRow]

\* games in progress the exploration starts from, besides a fresh page:
\* the board, the lines cleared and points scored so far, the type of the
\* active piece and how often it was rotated at its spawn position, the held
\* piece (Null for none) and whether holding is allowed, the types of the
\* preview, and what is left in the bag
Snapshots ==
  { [top |-> 4, ready |-> 4, lines |-> 0,  score |-> 0,
     active |-> 1, turns |-> 1, hold |-> Null, canHold |-> TRUE,
     queue |-> <<0, 2, 3>>, bag |-> <<6, 5, 4>>],
    [top |-> 4, ready |-> 1, lines |-> 9,  score |-> 900,
     active |-> 1, turns |-> 0, hold |-> Null, canHold |-> TRUE,
     queue |-> <<0, 2, 3>>, bag |-> <<6, 5, 4>>],
    [top |-> 4, ready |-> 2, lines |-> 10, score |-> 1000,
     active |-> 1, turns |-> 0, hold |-> 5, canHold |-> FALSE,
     queue |-> <<2, 3, 6>>, bag |-> <<0, 4>>],
    [top |-> 4, ready |-> 3, lines |-> 25, score |-> 4500,
     active |-> 1, turns |-> 0, hold |-> Null, canHold |-> TRUE,
     queue |-> <<6, 2, 3>>, bag |-> <<0, 5, 4>>],
    [top |-> 2, ready |-> 0, lines |-> 0,  score |-> 0,
     active |-> 2, turns |-> 0, hold |-> Null, canHold |-> TRUE,
     queue |-> <<1, 0, 6>>, bag |-> <<>>],
    [top |-> 4, ready |-> 2, lines |-> 12, score |-> 1400,
     active |-> 2, turns |-> 1, hold |-> 1, canHold |-> TRUE,
     queue |-> <<3, 4, 5>>, bag |-> <<6, 0>>],
    [top |-> 4, ready |-> 1, lines |-> 139, score |-> 103600,
     active |-> 1, turns |-> 1, hold |-> Null, canHold |-> TRUE,
     queue |-> <<4, 0, 5>>, bag |-> <<2, 6, 3>>],
    [top |-> 1, ready |-> 0, lines |-> 0,  score |-> 0,
     active |-> 1, turns |-> 0, hold |-> Null, canHold |-> TRUE,
     queue |-> <<0, 2, 3>>, bag |-> <<6, 5, 4>>] }

---------------------------------------------------------------------------
(* Richer ruleset: src/unnamed/part_000 *)

\* useState initial values and the initialisation effect
InitMount ==
  /\ ruleset = "rich"
  /\ grid = emptyGrid
  /\ \E b \in NewBags : \E d \in InitialDraws(b) :
       /\ nextPieces = d.pieces
       /\ piece = d.pieces[1]
       /\ bag = d.bag
  /\ nextPiece = NoPiece
  /\ holdPiece = NoPiece
  /\ canHold = TRUE
  /\ score = 0 /\ level = 0 /\ lines = 0
  /\ started = FALSE /\ over = FALSE /\ countdown = Null /\ paused = FALSE
  /\ timers = <<>> /\ period = Null /\ rearmed = FALSE
  /\ locks = 0 /\ intents = 0
  /\ last = Did("init", FALSE, 0)
  /\ result = NoResult

\* a game in progress
InitSnapshot ==
  /\ ruleset = "rich"
  /\ \E s \in Snapshots :
       /\ grid = StackBoard(s.top, s.ready)
       /\ piece = [MakePiece(s.active) EXCEPT
                     !.shape = IF s.turns = 1 THEN rotate(@) ELSE @]
       /\ nextPieces = [i \in 1..3 |-> MakePiece(s.queue[i])]
       /\ holdPiece = IF s.hold = Null THEN NoPiece ELSE MakePiece(s.hold)
       /\ canHold = s.canHold
       /\ bag = s.bag
       /\ score = s.score /\ lines = s.lines /\ level = LevelOf(s.lines)
  /\ nextPiece = NoPiece
  /\ started = TRUE /\ over = FALSE /\ countdown = Null /\ paused = FALSE
  /\ timers = <<>> /\ period = speed(level) /\ rearmed = FALSE
  /\ locks = 0 /\ intents = 0
  /\ last = Did("init", FALSE, 0)
  /\ result = NoResult

InitRich == InitMount \/ InitSnapshot

\* [...nextPieces.slice(1), pieceBag.current.next()]
ShiftQueue(q, p) == SubSeq(q, 2, Len(q)) \o <<p>>

\* a spawn that is never tested
GameOverCheckMut(newGrid, newPiece, o) == o

\* if (collides(newGrid, newPiece)) setOver(true)
GameOverCheck(newGrid, newPiece, o) ==
  IF collides(newGrid, newPiece) THEN TRUE ELSE o

\* the locks explored per session bound the play; a game that is over needs
\* no bound, its guards alone stop it
InBudget == over \/ locks < MaxLocks

\* a guard that forgets the end of the game
PlayingMut == started /\ ~paused

\* the guard of the gravity effect and of handleKeyDown
Playing == started /\ ~over /\ ~paused

\* lockPiece, followed by the level progression effect
lockPiece(op) ==
  LET merged   == merge(grid, piece)
      cl       == clearLines(merged)
      newPiece == nextPieces[1]
  IN  /\ grid' = cl.newGrid
      /\ score' = IF cl.cleared > 0 THEN score + calculateScore(cl.cleared, level)
                  ELSE score
      /\ lines' = IF cl.cleared > 0 THEN lines + cl.cleared ELSE lines
      /\ level' = LevelOf(lines')
      /\ \E d \in BagNext(bag) :
           /\ nextPieces' = ShiftQueue(nextPieces, d.piece)
           /\ bag' = d.bag
      /\ piece' = newPiece
      /\ canHold' = TRUE
      /\ over' = GameOverCheck(cl.newGrid, newPiece, over)
      /\ locks' = locks + 1
      /\ last' = Did(op, TRUE, cl.cleared)
      /\ UNCHANGED <<holdPiece, started, countdown, paused, timers>>

\* a downward attempt that leaves a blocked piece where it is
DownAttemptMut(op) ==
  LET next == [piece EXCEPT !.y = piece.y + 1]
  IN  /\ piece' = IF collides(grid, next) THEN piece ELSE next
      /\ last' = Did(op, FALSE, 0)
      /\ UNCHANGED <<grid, nextPieces, holdPiece, canHold, score, level,
                     lines, started, over, countdown, paused, bag, timers,
                     locks>>

\* the setPiece updater of the gravity interval and of ArrowDown
DownAttempt(op) ==
  LET next == [piece EXCEPT !.y = piece.y + 1]
  IN  IF collides(grid, next)
      THEN lockPiece(op)
      ELSE /\ piece' = next
           /\ last' = Did(op, FALSE, 0)
           /\ UNCHANGED <<grid, nextPieces, holdPiece, canHold, score, level,
                          lines, started, over, countdown, paused, bag, timers,
                          locks>>

\* a firing of the interval that leaves a blocked piece where it is
GravityTickMut ==
  /\ ruleset = "rich"
  /\ Playing /\ piece # NoPiece
  /\ DownAttemptMut("tick")
  /\ UNCHANGED <<ruleset, result, nextPiece, intents>>
  /\ GravityLoop

\* gravity loop effect: one firing of the interval
GravityTick ==
  /\ ruleset = "rich"
  /\ Playing /\ piece # NoPiece
  /\ DownAttempt("tick")
  /\ UNCHANGED <<ruleset, result, nextPiece, intents>>
  /\ GravityLoop

\* a firing of the interval within the locks explored
Tick == InBudget /\ GravityTick

\* handleKeyDown guard, shared by the gameplay keys
KeyDown ==
  /\ ruleset = "rich"
  /\ Playing
  /\ InBudget /\ intents < MaxIntents
  /\ intents' = intents + 1
  /\ UNCHANGED <<ruleset, result, nextPiece>>

\* the same guard for ArrowDown, which acts as a gravity tick does
KeyDownSoft ==
  /\ ruleset = "rich"
  /\ Playing
  /\ InBudget
  /\ UNCHANGED <<ruleset, result, nextPiece, intents>>

\* a sideways move that is committed without the collision test
MoveToMut(op, dx) ==
  /\ piece # NoPiece
  /\ piece' = [piece EXCEPT !.x = piece.x + dx]
  /\ last' = Did(op, FALSE, 0)
  /\ UNCHANGED <<grid, nextPieces, holdPiece, canHold, score, level, lines,
                 started, over, countdown, paused, bag, timers, locks>>

\* ArrowLeft (dx = -1) and ArrowRight (dx = 1)
MoveTo(op, dx) ==
  LET newPiece == [piece EXCEPT !.x = piece.x + dx]
  IN  /\ piece # NoPiece
      /\ piece' = IF collides(grid, newPiece) THEN piece ELSE newPiece
      /\ last' = Did(op, FALSE, 0)
      /\ UNCHANGED <<grid, nextPieces, holdPiece, canHold, score, level, lines,
                     started, over, countdown, paused, bag, timers, locks>>

ArrowLeft == KeyDown /\ MoveTo("left", -1) /\ GravityLoop

ArrowRight == KeyDown /\ MoveTo("right", 1) /\ GravityLoop

ArrowDown == KeyDownSoft /\ piece # NoPiece /\ DownAttempt("down") /\ GravityLoop

\* rotatePiece (Space)
rotatePiece ==
  /\ KeyDown
  /\ piece # NoPiece
  /\ LET rotatedPiece == [piece EXCEPT !.shape = rotate(piece.shape)]
     IN  piece' = IF ~collides(grid, rotatedPiece) THEN rotatedPiece ELSE piece
  /\ last' = Did("rotate", FALSE, 0)
  /\ UNCHANGED <<grid, nextPieces, holdPiece, canHold, score, level, lines,
                 started, over, countdown, paused, bag, timers, locks>>
  /\ GravityLoop

\* hardDrop (ArrowUp)
hardDrop ==
  /\ KeyDown
  /\ piece # NoPiece
  /\ LET droppedPiece == DropFrom(grid, piece)
         dropDistance == droppedPiece.y - piece.y
     IN  /\ piece' = droppedPiece
         /\ score' = score + dropDistance * 2
         /\ last' = Did("drop", FALSE, dropDistance)
  /\ UNCHANGED <<grid, nextPieces, holdPiece, canHold, level, lines,
                 started, over, countdown, paused, bag, timers, locks>>
  /\ GravityLoop

\* a hold whose swap stores the active piece where it stands
holdPieceActionMut ==
  /\ KeyDown
  /\ IF piece = NoPiece \/ ~canHold
     THEN UNCHANGED <<piece, holdPiece, nextPieces, bag, canHold>>
     ELSE /\ IF holdPiece # NoPiece
             THEN /\ piece' = Recentre(holdPiece)
                  /\ holdPiece' = piece
                  /\ UNCHANGED <<nextPieces, bag>>
             ELSE /\ holdPiece' = Recentre(piece)
                  /\ piece' = nextPieces[1]
                  /\ \E d \in BagNext(bag) :
                       /\ nextPieces' = ShiftQueue(nextPieces, d.piece)
                       /\ bag' = d.bag
          /\ canHold' = FALSE
  /\ last' = Did("hold", FALSE, 0)
  /\ UNCHANGED <<grid, score, level, lines, started, over, countdown, paused,
                 timers, locks>>
  /\ GravityLoop

\* a hold that is taken whether or not one was taken since the last lock
holdPieceActionAgain ==
  /\ KeyDown
  /\ IF piece = NoPiece
     THEN UNCHANGED <<piece, holdPiece, nextPieces, bag, canHold>>
     ELSE /\ IF holdPiece # NoPiece
             THEN /\ piece' = Recentre(holdPiece)
                  /\ holdPiece' = Recentre(piece)
                  /\ UNCHANGED <<nextPieces, bag>>
             ELSE /\ holdPiece' = Recentre(piece)
                  /\ piece' = nextPieces[1]
                  /\ \E d \in BagNext(bag) :
                       /\ nextPieces' = ShiftQueue(nextPieces, d.piece)
                       /\ bag' = d.bag
          /\ canHold' = FALSE
  /\ last' = Did("hold", FALSE, 0)
  /\ UNCHANGED <<grid, score, level, lines, started, over, countdown, paused,
                 timers, locks>>
  /\ GravityLoop

\* holdPieceAction (C)
holdPieceAction ==
  /\ KeyDown
  /\ IF piece = NoPiece \/ ~canHold
     THEN UNCHANGED <<piece, holdPiece, nextPieces, bag, canHold>>
     ELSE /\ IF holdPiece # NoPiece
             THEN /\ piece' = Recentre(holdPiece)
                  /\ holdPiece' = Recentre(piece)
                  /\ UNCHANGED <<nextPieces, bag>>
             ELSE /\ holdPiece' = Recentre(piece)
                  /\ piece' = nextPieces[1]
                  /\ \E d \in BagNext(bag) :
                       /\ nextPieces' = ShiftQueue(nextPieces, d.piece)
                       /\ bag' = d.bag
          /\ canHold' = FALSE
  /\ last' = Did("hold", FALSE, 0)
  /\ UNCHANGED <<grid, score, level, lines, started, over, countdown, paused,
                 timers, locks>>
  /\ GravityLoop

\* resetGame
resetGame ==
  /\ started' = FALSE
  /\ over' = FALSE
  /\ countdown' = Null
  /\ score' = 0 /\ level' = 0 /\ lines' = 0
  /\ grid' = emptyGrid
  /\ holdPiece' = NoPiece
  /\ canHold' = TRUE
  /\ \E b \in NewBags : \E d \in InitialDraws(b) :
       /\ nextPieces' = d.pieces
       /\ piece' = d.pieces[1]
       /\ bag' = d.bag
  /\ locks' = 0 /\ intents' = 0
  /\ UNCHANGED <<ruleset, result, nextPiece, timers>>

\* an 'r' that is taken in every phase
ResetKeyMut ==
  /\ ruleset = "rich"
  /\ resetGame
  /\ last' = Did("resetKey", FALSE, 0)
  /\ UNCHANGED paused
  /\ GravityLoop

\* handleKeyDown 'r' / 'R'
ResetKey ==
  /\ ruleset = "rich"
  /\ Playing
  /\ resetGame
  /\ last' = Did("resetKey", FALSE, 0)
  /\ UNCHANGED paused
  /\ GravityLoop

\* NEW GAME on the pause screen, PLAY AGAIN on the game over screen:
\* resetGame(); setPaused(false)
NewGameButton ==
  /\ ruleset = "rich"
  /\ (paused /\ started /\ ~over) \/ over
  /\ resetGame
  /\ paused' = FALSE
  /\ last' = Did("newGame", FALSE, 0)
  /\ GravityLoop

\* EXIT on the pause screen, MAIN MENU on the game over screen: resetGame()
ExitButton ==
  /\ ruleset = "rich"
  /\ (paused /\ started /\ ~over) \/ over
  /\ resetGame
  /\ last' = Did("exit", FALSE, 0)
  /\ UNCHANGED paused
  /\ GravityLoop

Frame == <<ruleset, result, grid, piece, nextPieces, nextPiece, holdPiece, canHold,
           score, level, lines, bag, locks, intents>>

\* handleKeyDown 'p' / 'P': setPaused(p => !p)
PauseKey ==
  /\ ruleset = "rich"
  /\ Playing
  /\ paused' = ~paused
  /\ last' = Did("pauseKey", FALSE, 0)
  /\ UNCHANGED <<Frame, started, over, countdown, timers>>
  /\ GravityLoop

\* the pause button, always on the page: setPaused(p => !p)
PauseButton ==
  /\ ruleset = "rich"
  /\ paused' = ~paused
  /\ last' = Did("pauseBtn", FALSE, 0)
  /\ UNCHANGED <<Frame, started, over, countdown, timers>>
  /\ GravityLoop

\* RESUME on the pause screen: setPaused(false)
ResumeButton ==
  /\ ruleset = "rich"
  /\ paused /\ started /\ ~over
  /\ paused' = FALSE
  /\ last' = Did("resume", FALSE, 0)
  /\ UNCHANGED <<Frame, started, over, countdown, timers>>
  /\ GravityLoop

\* the keys whose handler returns before its switch: 'r', 'p', and the
\* gameplay keys
IgnoredOps == {"resetKeyIgnored", "pauseKeyIgnored", "playKeyIgnored"}

\* handleKeyDown when it returns at once: if (!started || over || paused)
KeyIgnored ==
  /\ ruleset = "rich"
  /\ ~Playing
  /\ \E op \in IgnoredOps : last' = Did(op, FALSE, 0)
  /\ UNCHANGED <<Frame, started, over, countdown, paused, timers>>
  /\ GravityLoop

\* startGame, from the start menu shown while !started && countdown === null
startGame ==
  /\ ruleset \in {"rich", "simple"}
  /\ ~started /\ countdown = Null
  /\ countdown' = 3
  /\ timers' = Append(timers, 3)
  /\ last' = Did("start", FALSE, 0)
  /\ UNCHANGED <<Frame, started, over, paused>>
  /\ GravityEffect

\* one firing of a startGame interval whose local counter is timers[i]
CountdownTick ==
  /\ ruleset \in {"rich", "simple"}
  /\ \E i \in 1..Len(timers) :
       LET t == timers[i] - 1
       IN  IF t = 0
           THEN /\ timers' = [k \in 1..(Len(timers) - 1) |->
                                IF k < i THEN timers[k] ELSE timers[k + 1]]
                /\ countdown' = Null
                /\ started' = TRUE
           ELSE /\ timers' = [timers EXCEPT ![i] = t]
                /\ countdown' = t
                /\ UNCHANGED started
  /\ last' = Did("count", FALSE, 0)
  /\ UNCHANGED <<Frame, over, paused>>
  /\ GravityEffect

NextRich ==
  \/ Tick
  \/ ArrowLeft
  \/ ArrowRight
  \/ ArrowDown
  \/ rotatePiece
  \/ hardDrop
  \/ holdPieceAction
  \/ PauseKey
  \/ PauseButton
  \/ ResumeButton
  \/ ResetKey
  \/ NewGameButton
  \/ ExitButton
  \/ KeyIgnored
  \/ startGame
  \/ CountdownTick

SpecRich == InitRich /\ [][NextRich]_vars

---------------------------------------------------------------------------
(* Simple ruleset: src/src/App.tsx *)

\* a rand that never reaches the highest index
randMut(k, n) == (k * (n - 1)) \div RandGrain

\* rand(n): Math.floor(Math.random() * n) with Math.random() = k / RandGrain
rand(k, n) == (k * n) \div RandGrain

\* the random numbers a session draws its pieces from: lowest and highest
GameRandom == {0, RandGrain - 1}

\* randomPiece: the pieces one call may return
randomPiece == { MakePiece(rand(k, NTypes)) : k \in GameRandom }

\* games in progress of the simple ruleset: level counts the cleared lines
SimpleSnapshots ==
  { [top |-> 4, ready |-> 4, level |-> 0,  score |-> 320, active |-> 1, next |-> 0],
    [top |-> 4, ready |-> 1, level |-> 3,  score |-> 700, active |-> 1, next |-> 2],
    [top |-> 4, ready |-> 2, level |-> 25, score |-> 3010, active |-> 1, next |-> 5],
    [top |-> 2, ready |-> 0, level |-> 0,  score |-> 360, active |-> 2, next |-> 1],
    [top |-> 3, ready |-> 0, level |-> 0,  score |-> 340, active |-> 0, next |-> 2] }

InitSimpleCommon ==
  /\ ruleset = "simple"
  /\ nextPieces = <<>> /\ holdPiece = NoPiece /\ canHold = TRUE
  /\ lines = 0 /\ bag = <<>>
  /\ over = FALSE /\ countdown = Null /\ paused = FALSE
  /\ timers = <<>>
  /\ locks = 0 /\ intents = 0
  /\ last = Did("init", FALSE, 0)
  /\ result = NoResult

\* useState initial values
InitSimpleMount ==
  /\ InitSimpleCommon
  /\ grid = emptyGrid
  /\ piece \in randomPiece
  /\ nextPiece \in randomPiece
  /\ score = 0 /\ level = 0
  /\ started = FALSE
  /\ period = Null /\ rearmed = FALSE

\* a game in progress
InitSimpleSnapshot ==
  /\ InitSimpleCommon
  /\ \E s \in SimpleSnapshots :
       /\ grid = StackBoard(s.top, s.ready)
       /\ piece = MakePiece(s.active)
       /\ nextPiece = MakePiece(s.next)
       /\ score = s.score /\ level = s.level
  /\ started = TRUE
  /\ period = speedSimple(level) /\ rearmed = FALSE

InitSimple == InitSimpleMount \/ InitSimpleSnapshot

SimpleFrame == <<ruleset, result, nextPieces, holdPiece, canHold, lines, bag>>

\* a gravity tick that merges a blocked piece on whatever row it is
SimpleTickMerges ==
  /\ ruleset = "simple"
  /\ started /\ ~over /\ ~paused
  /\ InBudget
  /\ LET nxt == [piece EXCEPT !.y = piece.y + 1]
     IN  IF collidesSimple(grid, nxt)
         THEN LET merged == mergeSimple(grid, piece)
                  cl     == clearLinesSimple(merged)
              IN  /\ grid' = cl.newGrid
                  /\ score' = score + 10 + cl.cleared * 100
                  /\ level' = level + cl.cleared
                  /\ piece' = nextPiece
                  /\ nextPiece' \in randomPiece
                  /\ locks' = locks + 1
                  /\ last' = Did("tick", TRUE, cl.cleared)
                  /\ UNCHANGED over
         ELSE /\ piece' = nxt
              /\ last' = Did("tick", FALSE, 0)
              /\ UNCHANGED <<grid, nextPiece, score, level, over, locks>>
  /\ UNCHANGED <<SimpleFrame, started, countdown, paused, timers, intents>>
  /\ SimpleGravityLoop

\* a gravity tick that scores a lock by the level, as part_000 does
SimpleTickTiered ==
  /\ ruleset = "simple"
  /\ started /\ ~over /\ ~paused
  /\ InBudget
  /\ LET nxt == [piece EXCEPT !.y = piece.y + 1]
     IN  IF collidesSimple(grid, nxt)
         THEN IF piece.y = 0
              THEN /\ over' = TRUE
                   /\ last' = Did("tick", FALSE, 0)
                   /\ UNCHANGED <<grid, piece, nextPiece, score, level, locks>>
              ELSE LET merged == mergeSimple(grid, piece)
                       cl     == clearLinesSimple(merged)
                   IN  /\ grid' = cl.newGrid
                       /\ score' = score + 10 + cl.cleared * 100 * (level + 1)
                       /\ level' = level + cl.cleared
                       /\ piece' = nextPiece
                       /\ nextPiece' \in randomPiece
                       /\ locks' = locks + 1
                       /\ last' = Did("tick", TRUE, cl.cleared)
                       /\ UNCHANGED over
         ELSE /\ piece' = nxt
              /\ last' = Did("tick", FALSE, 0)
              /\ UNCHANGED <<grid, nextPiece, score, level, over, locks>>
  /\ UNCHANGED <<SimpleFrame, started, countdown, paused, timers, intents>>
  /\ SimpleGravityLoop

\* gravity loop effect: one firing of the interval
SimpleGravityTick ==
  /\ ruleset = "simple"
  /\ started /\ ~over /\ ~paused
  /\ LET nxt == [piece EXCEPT !.y = piece.y + 1]
     IN  IF collidesSimple(grid, nxt)
         THEN IF piece.y = 0
              THEN /\ over' = TRUE
                   /\ last' = Did("tick", FALSE, 0)
                   /\ UNCHANGED <<grid, piece, nextPiece, score, level, locks>>
              ELSE LET merged == mergeSimple(grid, piece)
                       cl     == clearLinesSimple(merged)
                   IN  /\ grid' = cl.newGrid
                       /\ score' = score + 10 + cl.cleared * 100
                       /\ level' = level + cl.cleared
                       /\ piece' = nextPiece
                       /\ nextPiece' \in randomPiece
                       /\ locks' = locks + 1
                       /\ last' = Did("tick", TRUE, cl.cleared)
                       /\ UNCHANGED over
         ELSE /\ piece' = nxt
              /\ last' = Did("tick", FALSE, 0)
              /\ UNCHANGED <<grid, nextPiece, score, level, over, locks>>
  /\ UNCHANGED <<SimpleFrame, started, countdown, paused, timers, intents>>
  /\ SimpleGravityLoop

\* a firing of the interval within the locks explored
SimpleTick == InBudget /\ SimpleGravityTick

\* the while loop of ArrowUp / hardDrop
RECURSIVE DropFromSimple(_, _)
DropFromSimple(g, p) ==
  IF ~collidesSimple(g, [p EXCEPT !.y = p.y + 1])
  THEN DropFromSimple(g, [p EXCEPT !.y = p.y + 1]) ELSE p

\* the piece np that onKey builds for a key
KeyTarget(key, p) ==
  IF key = "ArrowLeft" THEN [p EXCEPT !.x = p.x - 1]
  ELSE IF key = "ArrowRight" THEN [p EXCEPT !.x = p.x + 1]
  ELSE IF key = "ArrowDown" THEN [p EXCEPT !.y = p.y + 1]
  ELSE IF key = " " THEN [p EXCEPT !.shape = rotateSimple(p.shape)]
  ELSE IF key = "ArrowUp" THEN DropFromSimple(grid, p)
  ELSE p

KeyOp(key) ==
  IF key = "ArrowLeft" THEN "left"
  ELSE IF key = "ArrowRight" THEN "right"
  ELSE IF key = "ArrowDown" THEN "down"
  ELSE IF key = " " THEN "rotate"
  ELSE "drop"

\* onKey for the gameplay keys; the touch buttons moveLeft, moveRight,
\* moveDown and rotatePiece do the same
SimpleKey ==
  /\ ruleset = "simple"
  /\ started /\ ~over
  /\ InBudget
  /\ \E key \in {"ArrowLeft", "ArrowRight", "ArrowDown", " ", "ArrowUp"} :
       /\ IF key = "ArrowDown" THEN UNCHANGED intents
          ELSE intents < MaxIntents /\ intents' = intents + 1
       /\ LET np == KeyTarget(key, piece)
          IN  piece' = IF collidesSimple(grid, np) THEN piece ELSE np
       /\ last' = Did(KeyOp(key), FALSE, IF key = "ArrowUp" THEN piece'.y - piece.y ELSE 0)
  /\ UNCHANGED <<SimpleFrame, grid, nextPiece, score, level, started, over,
                 countdown, paused, timers, locks>>
  /\ SimpleGravityLoop

\* the touch button hardDrop, which returns np without a collision test
SimpleTouchHardDrop ==
  /\ ruleset = "simple"
  /\ started /\ ~over
  /\ InBudget /\ intents < MaxIntents
  /\ intents' = intents + 1
  /\ piece' = DropFromSimple(grid, piece)
  /\ last' = Did("dropTouch", FALSE, piece'.y - piece.y)
  /\ UNCHANGED <<SimpleFrame, grid, nextPiece, score, level, started, over,
                 countdown, paused, timers, locks>>
  /\ SimpleGravityLoop

\* resetGame of App.tsx
resetGameSimple ==
  /\ started' = FALSE
  /\ over' = FALSE
  /\ countdown' = Null
  /\ score' = 0 /\ level' = 0
  /\ grid' = emptyGrid
  /\ piece' \in randomPiece
  /\ nextPiece' \in randomPiece
  /\ locks' = 0 /\ intents' = 0
  /\ UNCHANGED <<SimpleFrame, timers>>

\* onKey 'r'
SimpleResetKey ==
  /\ ruleset = "simple"
  /\ started /\ ~over
  /\ resetGameSimple
  /\ last' = Did("resetKey", FALSE, 0)
  /\ UNCHANGED paused
  /\ SimpleGravityLoop

\* REPLAY on the pause screen: resetGame(); setPaused(false); setStarted(true)
SimpleReplayButton ==
  /\ ruleset = "simple"
  /\ paused /\ started /\ ~over
  /\ over' = FALSE
  /\ countdown' = Null
  /\ score' = 0 /\ level' = 0
  /\ grid' = emptyGrid
  /\ piece' \in randomPiece
  /\ nextPiece' \in randomPiece
  /\ locks' = 0 /\ intents' = 0
  /\ paused' = FALSE
  /\ started' = TRUE
  /\ last' = Did("replay", FALSE, 0)
  /\ UNCHANGED <<SimpleFrame, timers>>
  /\ SimpleGravityLoop

\* EXIT on the pause screen: resetGame()
SimpleExitButton ==
  /\ ruleset = "simple"
  /\ paused /\ started /\ ~over
  /\ resetGameSimple
  /\ last' = Did("exit", FALSE, 0)
  /\ UNCHANGED paused
  /\ SimpleGravityLoop

\* the second onKey, 'p': setPaused(p => !p)
SimplePauseKey ==
  /\ ruleset = "simple"
  /\ started /\ ~over
  /\ paused' = ~paused
  /\ last' = Did("pauseKey", FALSE, 0)
  /\ UNCHANGED <<Frame, started, over, countdown, timers>>
  /\ SimpleGravityLoop

\* handlePause, the pause button always on the page
SimplePauseButton ==
  /\ ruleset = "simple"
  /\ paused' = ~paused
  /\ last' = Did("pauseBtn", FALSE, 0)
  /\ UNCHANGED <<Frame, started, over, countdown, timers>>
  /\ SimpleGravityLoop

\* RESUME on the pause screen: setPaused(false)
SimpleResumeButton ==
  /\ ruleset = "simple"
  /\ paused /\ started /\ ~over
  /\ paused' = FALSE
  /\ last' = Did("resume", FALSE, 0)
  /\ UNCHANGED <<Frame, started, over, countdown, timers>>
  /\ SimpleGravityLoop

\* both onKey handlers when they return at once: if (!started || over)
SimpleKeyIgnored ==
  /\ ruleset = "simple"
  /\ ~started \/ over
  /\ \E op \in IgnoredOps : last' = Did(op, FALSE, 0)
  /\ UNCHANGED <<Frame, started, over, countdown, paused, timers>>
  /\ SimpleGravityLoop

NextSimple ==
  \/ SimpleTick
  \/ SimpleKey
  \/ SimpleTouchHardDrop
  \/ SimpleResetKey
  \/ SimpleReplayButton
  \/ SimpleExitButton
  \/ SimplePauseKey
  \/ SimplePauseButton
  \/ SimpleResumeButton
  \/ SimpleKeyIgnored
  \/ startGame
  \/ CountdownTick

SpecSimple == InitSimple /\ [][NextSimple]_vars

---------------------------------------------------------------------------
(* Both rulesets *)

Init == InitRich \/ InitSimple

Next ==
  \/ Tick
  \/ ArrowLeft
  \/ ArrowRight
  \/ ArrowDown
  \/ rotatePiece
  \/ hardDrop
  \/ holdPieceAction
  \/ PauseKey
  \/ PauseButton
  \/ ResumeButton
  \/ ResetKey
  \/ NewGameButton
  \/ ExitButton
  \/ SimpleTick
  \/ SimpleKey
  \/ SimpleTouchHardDrop
  \/ SimpleResetKey
  \/ SimpleReplayButton
  \/ SimpleExitButton
  \/ SimplePauseKey
  \/ SimplePauseButton
  \/ SimpleResumeButton
  \/ KeyIgnored
  \/ SimpleKeyIgnored
  \/ startGame
  \/ CountdownTick

Spec == Init /\ [][Next]_vars

---------------------------------------------------------------------------
(* Function probes: collides and clearLines applied to boards and pieces   *)
(* drawn from bounded sets                                                 *)

FullRow == <<6, 6, 6, 2, 1, 1, 1, 1, 7, 7>>
ProbeRowKinds == {[c \in 1..COLS |-> 0], HoleRow, ReadyRow, FullRow}

\* a window of ProbeRows rows of any kind, at the top of the board over a
\* stack of rows with holes, or at the bottom of the board under empty rows
ProbeBoards ==
  { [r \in 1..ROWS |->
       IF r \in (o + 1)..(o + ProbeRows) THEN w[r - o]
       ELSE IF r <= o THEN [c \in 1..COLS |-> 0] ELSE HoleRow] :
      o \in {0, ROWS - ProbeRows}, w \in [1..ProbeRows -> ProbeRowKinds] }

RECURSIVE Rotations(_, _)
Rotations(shape, n) ==
  IF n = 0 THEN {shape} ELSE {shape} \cup Rotations(rotate(shape), n - 1)

\* every tetromino in every orientation, around the four edges of the board
ProbePieces ==
  UNION { { [shape |-> sh, x |-> x, y |-> y, colorIdx |-> t] :
              sh \in Rotations(SHAPES[t + 1], 3),
              x \in -1..(COLS - 1),
              y \in {-2, -1, 0, 1, ROWS - 3, ROWS - 2, ROWS - 1} } :
          t \in 0..(NTypes - 1) }

InitPure ==
  /\ ruleset = "pure"
  /\ grid \in ProbeBoards
  /\ piece = NoPiece
  /\ nextPieces = <<>> /\ nextPiece = NoPiece /\ holdPiece = NoPiece
  /\ canHold = TRUE
  /\ score = 0 /\ level = 0 /\ lines = 0
  /\ started = FALSE /\ over = FALSE /\ countdown = Null /\ paused = FALSE
  /\ bag = <<>> /\ timers = <<>> /\ period = Null /\ rearmed = FALSE
  /\ locks = 0 /\ intents = 0
  /\ last = Did("init", FALSE, 0)
  /\ result = NoResult

PureFrame == <<ruleset, grid, nextPieces, nextPiece, holdPiece, canHold, score,
               level, lines, started, over, countdown, paused, bag, timers,
               period, rearmed, locks, intents, last>>

\* collides(grid, p) of both files for a piece p
CollidesProbe ==
  /\ ruleset = "pure"
  /\ result = NoResult
  /\ \E p \in ProbePieces :
       /\ piece' = p
       /\ result' = [fn |-> "collides", rich |-> collides(grid, p),
                     simple |-> collidesSimple(grid, p)]
  /\ UNCHANGED PureFrame

\* clearLines(grid) of both files
ClearLinesProbe ==
  /\ ruleset = "pure"
  /\ result = NoResult
  /\ result' = [fn |-> "clearLines", rich |-> clearLines(grid),
                simple |-> clearLinesSimple(grid)]
  /\ UNCHANGED <<PureFrame, piece>>

NextPure == CollidesProbe \/ ClearLinesProbe

SpecPure == InitPure /\ [][NextPure]_vars

---------------------------------------------------------------------------
(* Function probes: merge, getGhostPiece and rotate applied to boards,     *)
(* pieces and shapes drawn from bounded sets                               *)

\* the columns merge and getGhostPiece are probed at: the left edge and the
\* well in column 3; the right edge with and without room for a piece two
\* cells wide
PlacementColumns == {0, 3, COLS - 2, COLS - 1}

MergeFrame == <<ruleset, nextPieces, nextPiece, holdPiece, canHold, score,
                level, lines, started, over, countdown, paused, bag, timers,
                period, rearmed, locks, intents, last>>

\* the merge of both files for a piece p whose rows the board has (the code
\* throws on a row past the last); grid is then the argument after the call
MergeProbe ==
  /\ ruleset = "pure"
  /\ result = NoResult
  /\ \E p \in ProbePieces :
       /\ p.x \in PlacementColumns
       /\ p.y + Len(p.shape) <= ROWS
       /\ piece' = p
       /\ result' = [fn |-> "merge", input |-> grid, rich |-> merge(grid, p),
                     simple |-> mergeSimple(grid, p)]
       /\ grid' = ArgAfterMerge(grid, p)
  /\ UNCHANGED MergeFrame

\* getGhostPiece(p, grid) for a piece p that does not collide; piece is then
\* the argument after the call (the loop moves the copy { ...piece })
GhostProbe ==
  /\ ruleset = "pure"
  /\ result = NoResult
  /\ \E p \in ProbePieces :
       /\ p.x \in PlacementColumns
       /\ ~collides(grid, p)
       /\ piece' = p
       /\ result' = [fn |-> "ghost", input |-> p, ghost |-> getGhostPiece(p, grid)]
  /\ UNCHANGED PureFrame

\* n applications of the rotate of part_000 to a shape, each result kept
RECURSIVE Turns(_, _)
Turns(shape, n) ==
  IF n = 0 THEN <<>> ELSE <<rotate(shape)>> \o Turns(rotate(shape), n - 1)

\* n applications of the rotate of App.tsx to a shape, each result kept
RECURSIVE TurnsSimple(_, _)
TurnsSimple(shape, n) ==
  IF n = 0 THEN <<>>
  ELSE <<rotateSimple(shape)>> \o TurnsSimple(rotateSimple(shape), n - 1)

\* rotate of both files, applied four times in a row to a base shape
RotateProbe ==
  /\ ruleset = "pure"
  /\ result = NoResult
  /\ \E t \in 0..(NTypes - 1) :
       /\ piece' = MakePiece(t)
       /\ result' = [fn |-> "rotate", rich |-> Turns(SHAPES[t + 1], 4),
                     simple |-> TurnsSimple(SHAPES[t + 1], 4)]
  /\ UNCHANGED PureFrame

NextPlacement == MergeProbe \/ GhostProbe \/ RotateProbe

SpecPlacement == InitPure /\ [][NextPlacement]_vars

---------------------------------------------------------------------------
(* The PieceBag alone: one bag, every outcome of its shuffles *)

\* every sequence of random numbers one refillBag may draw
AllStreams == [1..(NTypes - 1) -> 0..(RandGrain - 1)]

\* how often each type was drawn since the last refill
NoneDrawn == [t \in 0..(NTypes - 1) |-> 0]

InitBag ==
  /\ ruleset = "bag"
  /\ grid = emptyGrid
  /\ piece = NoPiece
  /\ nextPieces = <<>> /\ nextPiece = NoPiece /\ holdPiece = NoPiece
  /\ canHold = TRUE
  /\ score = 0 /\ level = 0 /\ lines = 0
  /\ started = FALSE /\ over = FALSE /\ countdown = Null /\ paused = FALSE
  /\ bag = <<>> /\ timers = <<>> /\ period = Null /\ rearmed = FALSE
  /\ locks = 0 /\ intents = 0
  /\ last = Did("init", FALSE, 0)
  /\ result = NoResult

BagFrame == <<ruleset, grid, nextPieces, nextPiece, holdPiece, canHold, score,
              level, lines, started, over, countdown, paused, timers, period,
              rearmed, locks, intents, last>>

\* new PieceBag(): the constructor refills the bag
NewPieceBag ==
  /\ ruleset = "bag"
  /\ result = NoResult
  /\ \E rnd \in AllStreams : bag' = refillBag(rnd)
  /\ result' = [fn |-> "bag", drawn |-> NoneDrawn, draws |-> 0,
                refilled |-> TRUE, before |-> Len(bag)]
  /\ UNCHANGED <<BagFrame, piece>>

\* PieceBag.next(): refill if the bag is empty, then pop
PieceBagNext ==
  /\ ruleset = "bag"
  /\ result # NoResult /\ result.draws < MaxDraws
  /\ \E full \in IF Len(bag) = 0
                  THEN {refillBag(rnd) : rnd \in AllStreams} ELSE {bag} :
       LET refill   == Len(bag) = 0
           colorIdx == full[Len(full)]
           since    == IF refill THEN NoneDrawn ELSE result.drawn
       IN  /\ bag' = SubSeq(full, 1, Len(full) - 1)
           /\ piece' = MakePiece(colorIdx)
           /\ result' = [fn |-> "bag",
                         drawn |-> [since EXCEPT ![colorIdx] = @ + 1],
                         draws |-> result.draws + 1,
                         refilled |-> refill, before |-> Len(bag)]
  /\ UNCHANGED BagFrame

NextBag == NewPieceBag \/ PieceBagNext

SpecBag == InitBag /\ [][NextBag]_vars

---------------------------------------------------------------------------
(* randomPiece alone: a run of draws, every outcome of Math.random *)

InitRandom ==
  /\ ruleset = "random"
  /\ grid = emptyGrid
  /\ piece = NoPiece
  /\ nextPieces = <<>> /\ nextPiece = NoPiece /\ holdPiece = NoPiece
  /\ canHold = TRUE
  /\ score = 0 /\ level = 0 /\ lines = 0
  /\ started = FALSE /\ over = FALSE /\ countdown = Null /\ paused = FALSE
  /\ bag = <<>> /\ timers = <<>> /\ period = Null /\ rearmed = FALSE
  /\ locks = 0 /\ intents = 0
  /\ last = Did("init", FALSE, 0)
  /\ result = NoResult

\* one call of randomPiece(); result keeps the number of calls so far and
\* the type the call before returned
RandomPieceProbe ==
  /\ ruleset = "random"
  /\ IF result = NoResult THEN TRUE ELSE result.draws < MaxDraws
  /\ \E k \in 0..(RandGrain - 1) : piece' = MakePiece(rand(k, NTypes))
  /\ result' = [fn |-> "randomPiece",
                draws |-> IF result = NoResult THEN 1 ELSE result.draws + 1,
                before |-> piece.colorIdx]
  /\ UNCHANGED <<BagFrame, bag>>

NextRandom == RandomPieceProbe

SpecRandom == InitRandom /\ [][NextRandom]_vars

---------------------------------------------------------------------------
(* What the specification says, stated over sets of board cells *)

\* the board cells <<row, col>> (0-based) under the occupied cells of p
Covered(p) ==
  { <<p.y + ij[1] - 1, p.x + ij[2] - 1>> :
      ij \in { rc \in (1..Len(p.shape)) \X (1..Len(p.shape[1])) :
                 p.shape[rc[1]][rc[2]] # 0 } }

\* some occupied cell is outside the columns, at or past the bottom, or on a
\* non-empty cell of the board B
Blocked(B, p) ==
  \E rc \in Covered(p) :
    \/ rc[2] < 0
    \/ rc[2] >= COLS
    \/ rc[1] >= ROWS
    \/ (rc[1] \in 0..(ROWS - 1) /\ rc[2] \in 0..(COLS - 1)
          /\ B[rc[1] + 1][rc[2] + 1] # 0)

Down(p) == [p EXCEPT !.y = p.y + 1]

\* B with the cells under p written with the colour of p
MergedAs(B, p) ==
  LET under == Covered(p)
  IN  [r \in 1..ROWS |-> [c \in 1..COLS |->
         IF <<r - 1, c - 1>> \in under THEN p.colorIdx + 1 ELSE B[r][c]]]

FullRowsOf(B) == {r \in 1..Len(B) : \A c \in 1..Len(B[r]) : B[r][c] # 0}

\* the rows of B that are not full, in their order, under as many empty rows
\* as B has full rows
ClearedAs(B) ==
  LET full == FullRowsOf(B)
      k    == Cardinality(full)
      Nth(j) == CHOOSE r \in (1..Len(B)) \ full :
                  Cardinality({q \in (1..r) \ full : TRUE}) = j
  IN  [i \in 1..Len(B) |->
         IF i <= k THEN [c \in 1..COLS |-> 0] ELSE B[Nth(i - k)]]

\* p is as the piece supply builds it: base shape, centred, on row 0
AtSpawn(p) ==
  /\ p.colorIdx \in 0..(NTypes - 1)
  /\ p.shape = SHAPES[p.colorIdx + 1]
  /\ p.x = (COLS - Len(p.shape[1])) \div 2
  /\ p.y = 0

\* p is one draw from the bag b, which leaves the bag b2
OneDraw(b, b2, p) ==
  /\ AtSpawn(p)
  /\ IF Len(b) > 0
     THEN p.colorIdx = b[Len(b)] /\ b2 = SubSeq(b, 1, Len(b) - 1)
     ELSE /\ Len(b2) = NTypes - 1
          /\ {b2[i] : i \in 1..Len(b2)} \cup {p.colorIdx} = 0..(NTypes - 1)

\* the preview q2 is q without its head and with one draw from the bag at
\* its tail
QueueAdvanced(q, q2, b, b2) ==
  /\ Len(q2) = 3
  /\ q2[1] = q[2] /\ q2[2] = q[3]
  /\ OneDraw(b, b2, q2[3])

\* a step of the richer ruleset in which a downward attempt is blocked
RichBlockedDown ==
  /\ ruleset = "rich"
  /\ last'.op \in {"tick", "down"}
  /\ Blocked(grid, Down(piece))

---------------------------------------------------------------------------
(* Claims *)

\* C1: in the richer ruleset, whenever a downward attempt of the active
\* piece collides, the lock merges the piece into the board where it is,
\* clears the full lines, makes the head of the preview the active piece at
\* its spawn position, shifts the preview and refills it with one draw from
\* the bag (length 3), and allows holding again.
C1_LockTransition ==
  [][ RichBlockedDown =>
        /\ grid' = ClearedAs(MergedAs(grid, piece))
        /\ piece' = nextPieces[1] /\ AtSpawn(piece')
        /\ QueueAdvanced(nextPieces, nextPieces', bag, bag')
        /\ canHold' ]_vars

C1_Witness ==
  /\ ruleset = "rich" /\ last.lock /\ last.n > 0
  /\ holdPiece # NoPiece /\ canHold

\* C2: in the richer ruleset the session becomes Over exactly in a lock
\* whose freshly spawned piece collides with the board left by the line
\* clearing; no other transition sets Over.
C2_OverOnlyByLock ==
  [][ ruleset = "rich" =>
        ((~over /\ over') <=> (RichBlockedDown /\ Blocked(grid', piece'))) ]_vars

C2_Witness == ruleset = "rich" /\ over /\ last.lock /\ Blocked(grid, piece)

\* C3: collides(B, P) of both files is true iff some occupied cell of P is
\* outside the columns, at or past the bottom row, or (row >= 0) on a
\* non-empty cell of B.
C3_CollidesIsBlocked ==
  result.fn = "collides" =>
    /\ result.rich = Blocked(grid, piece)
    /\ result.simple = Blocked(grid, piece)

\* a piece with a cell above the board, over a filled cell of row 0, that
\* does not collide
C3_Witness ==
  /\ result.fn = "collides" /\ ~result.rich /\ ~result.simple
  /\ \E rc \in Covered(piece) : rc[1] < 0 /\ grid[1][rc[2] + 1] # 0

\* C4: clearLines(B) of both files removes exactly the full rows, keeps the
\* other rows in order under as many empty rows as were removed, and
\* reports the number of full rows; with no full row the result is (B, 0).
C4_ClearLines ==
  result.fn = "clearLines" =>
    /\ result.rich.cleared = Cardinality(FullRowsOf(grid))
    /\ result.rich.newGrid = ClearedAs(grid)
    /\ result.simple = result.rich
    /\ (FullRowsOf(grid) = {} => result.rich = [newGrid |-> grid, cleared |-> 0])

\* two full rows with a row that stays between them
C4_Witness ==
  /\ result.fn = "clearLines" /\ result.rich.cleared = 2
  /\ \E r \in 2..(ROWS - 1) :
       /\ {r - 1, r + 1} \subseteq FullRowsOf(grid)
       /\ r \notin FullRowsOf(grid)

\* C5: in every reachable state of a session the board has ROWS rows of
\* COLS cells, each 0 or a colour index in 1..7.
C5_BoardShape ==
  ruleset \in {"rich", "simple"} =>
    /\ Len(grid) = ROWS
    /\ \A r \in 1..Len(grid) :
         /\ Len(grid[r]) = COLS
         /\ \A c \in 1..Len(grid[r]) : grid[r][c] \in 0..NTypes

C5_Witness == last.lock /\ last.n > 0 /\ grid # emptyGrid

\* the base points T(k) for k lines cleared by one lock
Tier(k) ==
  CASE k = 0 -> 0 [] k = 1 -> 100 [] k = 2 -> 300 [] k = 3 -> 500 [] k = 4 -> 800

\* C6: in the richer ruleset a lock that clears k lines at level L adds
\* T(k) * (L + 1) to the score, T = 0, 100, 300, 500, 800, and k to the
\* cumulative lines.
C6_TieredScore ==
  [][ RichBlockedDown =>
        LET k == Cardinality(FullRowsOf(MergedAs(grid, piece)))
        IN  /\ score' = score + Tier(k) * (level + 1)
            /\ lines' = lines + k ]_vars

\* four rows cleared at level 0 with nothing else scored: exactly 800
C6_Witness ==
  /\ ruleset = "rich" /\ last.lock /\ last.n = 4
  /\ lines = 4 /\ score = 800

\* the C x R matrix with rotated[j][R-1-i] = shape[i][j] (0-based)
RotatedAs(shape) ==
  CHOOSE m \in [1..Len(shape[1]) -> [1..Len(shape) -> {0, 1}]] :
    \A i \in 1..Len(shape) : \A j \in 1..Len(shape[1]) :
      m[j][Len(shape) + 1 - i] = shape[i][j]

\* C7: in Running a move-left, move-right or rotate intent is committed
\* only if the resulting piece does not collide, and is otherwise a no-op on
\* the whole session; a committed move changes only x, by one, and a
\* committed rotate only the shape (no wall kick).
C7_MoveOrRotate ==
  [][ (ruleset = "rich" /\ last'.op \in {"left", "right", "rotate"}) =>
        /\ started /\ ~over /\ ~paused
        /\ UNCHANGED <<grid, nextPieces, holdPiece, canHold, score, level,
                       lines, started, over, countdown, paused, bag>>
        /\ LET target ==
                 IF last'.op = "left" THEN [piece EXCEPT !.x = piece.x - 1]
                 ELSE IF last'.op = "right" THEN [piece EXCEPT !.x = piece.x + 1]
                 ELSE [piece EXCEPT !.shape = RotatedAs(piece.shape)]
           IN  piece' = IF Blocked(grid, target) THEN piece ELSE target ]_vars

\* a move of a piece standing in the well, where both neighbours are filled
C7_Witness ==
  /\ ruleset = "rich" /\ last.op \in {"left", "right"}
  /\ Len(piece.shape) = 4 /\ piece.x = 3 /\ piece.y >= 1
  /\ Blocked(grid, [piece EXCEPT !.x = 2])
  /\ Blocked(grid, [piece EXCEPT !.x = 4])

\* the effect of a downward attempt in the richer ruleset: one row down when
\* that is free, and the lock otherwise
RichDownEffect ==
  IF Blocked(grid, Down(piece))
  THEN /\ grid' = ClearedAs(MergedAs(grid, piece))
       /\ piece' = nextPieces[1]
       /\ QueueAdvanced(nextPieces, nextPieces', bag, bag')
       /\ canHold'
       /\ LET k == Cardinality(FullRowsOf(MergedAs(grid, piece)))
          IN  score' = score + Tier(k) * (level + 1) /\ lines' = lines + k
       /\ over' = Blocked(grid', piece')
       /\ UNCHANGED holdPiece
  ELSE /\ piece' = Down(piece)
       /\ UNCHANGED <<grid, nextPieces, bag, holdPiece, canHold, score, level,
                      lines, over>>

\* the effect of the gravity tick's downward attempt in the simple ruleset
SimpleDownEffect ==
  IF Blocked(grid, Down(piece))
  THEN IF piece.y = 0
       THEN over' /\ UNCHANGED <<grid, piece, nextPiece, score, level>>
       ELSE /\ grid' = ClearedAs(MergedAs(grid, piece))
            /\ piece' = nextPiece
            /\ LET k == Cardinality(FullRowsOf(MergedAs(grid, piece)))
               IN  score' = score + 10 + 100 * k /\ level' = level + k
            /\ UNCHANGED over
  ELSE /\ piece' = Down(piece)
       /\ UNCHANGED <<grid, nextPiece, score, level, over>>

\* C8 as stated: in every ruleset a soft-drop has the effect of one gravity
\* tick's downward attempt, lock included.
C8_SoftDropIsTick ==
  [][ (last'.op = "down" /\ ruleset = "rich" => RichDownEffect)
      /\ (last'.op = "down" /\ ruleset = "simple" => SimpleDownEffect) ]_vars

\* C8 amended: in the richer ruleset a soft-drop and a gravity tick both
\* have the effect of a downward attempt, lock included; in the simple
\* ruleset the gravity tick has it, and a soft-drop moves the piece one row
\* down when that is free and changes nothing when it is blocked.
C8_SoftDropPerRuleset ==
  [][ /\ (last'.op \in {"tick", "down"} /\ ruleset = "rich" => RichDownEffect)
      /\ (last'.op = "tick" /\ ruleset = "simple" => SimpleDownEffect)
      /\ (last'.op = "down" /\ ruleset = "simple" =>
            /\ piece' = IF Blocked(grid, Down(piece)) THEN piece ELSE Down(piece)
            /\ UNCHANGED <<grid, nextPiece, score, level, over, locks>>) ]_vars

\* a soft-drop of the richer ruleset that locked the piece
C8_Witness == ruleset = "rich" /\ last.op = "down" /\ last.lock

\* C9: a hard-drop moves the piece down by the largest distance d with no
\* collision on the way, does not lock and leaves board, preview and hold
\* alone, and adds 2 * d to the score in the richer ruleset and nothing in
\* the simple one.
C9_HardDrop ==
  [][ (ruleset \in {"rich", "simple"} /\ last'.op \in {"drop", "dropTouch"}) =>
        LET d == piece'.y - piece.y
        IN  /\ d >= 0
            /\ piece' = [piece EXCEPT !.y = piece.y + d]
            /\ \A k \in 1..d : ~Blocked(grid, [piece EXCEPT !.y = piece.y + k])
            /\ Blocked(grid, [piece EXCEPT !.y = piece.y + d + 1])
            /\ UNCHANGED <<grid, nextPieces, nextPiece, holdPiece, canHold, bag,
                           level, lines, over, locks>>
            /\ score' = IF ruleset = "rich" THEN score + 2 * d ELSE score ]_vars

\* a piece that was hard-dropped by some rows and can still go sideways
C9_Witness ==
  /\ ruleset = "rich" /\ last.op = "drop" /\ last.n > 0 /\ ~over
  /\ Blocked(grid, Down(piece))
  /\ ~Blocked(grid, [piece EXCEPT !.x = piece.x - 1])

\* C10: in the richer ruleset a permitted hold with an empty held slot puts
\* the active piece re-centred on row 0 into the slot, makes the head of the
\* preview the active piece, shifts the preview and refills it from the bag
\* (length 3), and leaves board, score, level and lines alone.
C10_HoldEmptySlot ==
  [][ (ruleset = "rich" /\ last'.op = "hold" /\ canHold /\ holdPiece = NoPiece
         /\ piece # NoPiece) =>
        /\ holdPiece' = [shape |-> piece.shape,
                         x |-> (COLS - Len(piece.shape[1])) \div 2,
                         y |-> 0, colorIdx |-> piece.colorIdx]
        /\ piece' = nextPieces[1]
        /\ QueueAdvanced(nextPieces, nextPieces', bag, bag')
        /\ UNCHANGED <<grid, score, level, lines>> ]_vars

\* the first hold of a game, of a piece that had been rotated
C10_Witness ==
  /\ ruleset = "rich" /\ last.op = "hold" /\ locks = 0
  /\ holdPiece # NoPiece /\ ~canHold
  /\ holdPiece.shape # SHAPES[holdPiece.colorIdx + 1]
  /\ holdPiece.x = (COLS - Len(holdPiece.shape[1])) \div 2 /\ holdPiece.y = 0
  /\ piece.x = (COLS - Len(piece.shape[1])) \div 2 /\ piece.y = 0


\* p with its shape and colour kept, centred for the width of its shape, on
\* row 0
Centred(p) ==
  [shape |-> p.shape, x |-> (COLS - Len(p.shape[1])) \div 2, y |-> 0,
   colorIdx |-> p.colorIdx]

\* C11: in the richer ruleset a permitted hold with an occupied held slot
\* swaps the held and the active piece, each centred for its own shape on
\* row 0, and leaves preview, bag, board, score, level and lines alone.
C11_HoldSwap ==
  [][ (ruleset = "rich" /\ last'.op = "hold" /\ canHold /\ holdPiece # NoPiece
         /\ piece # NoPiece) =>
        /\ piece' = Centred(holdPiece)
        /\ holdPiece' = Centred(piece)
        /\ UNCHANGED <<nextPieces, bag, grid, score, level, lines>> ]_vars

\* a swap that took a rotated T for the held I
C11_Witness ==
  /\ ruleset = "rich" /\ last.op = "hold" /\ ~canHold
  /\ piece = MakePiece(1)
  /\ holdPiece.colorIdx = 2 /\ Len(holdPiece.shape) = 3
  /\ holdPiece.x = 4 /\ holdPiece.y = 0
  /\ nextPieces = <<MakePiece(3), MakePiece(4), MakePiece(5)>>


\* the steps that run resetGame of the richer ruleset
RichResetOps == {"resetKey", "newGame", "exit"}

\* C12: in the richer ruleset a hold is accepted only while holding is
\* allowed (the hold-used flag is clear); an accepted hold forbids holding,
\* and only a lock or a reset allows it again; a hold while it is forbidden
\* leaves the state as it was.
C12_HoldOncePerLock ==
  [][ ruleset = "rich" =>
        /\ (last'.op = "hold" /\ ~canHold =>
              UNCHANGED <<grid, piece, nextPieces, holdPiece, canHold, bag,
                          score, level, lines, started, over, countdown,
                          paused>>)
        /\ (last'.op = "hold" /\ canHold /\ piece # NoPiece => ~canHold')
        /\ (~canHold /\ canHold' => last'.lock \/ last'.op \in RichResetOps)
        /\ (holdPiece' # holdPiece =>
              (last'.op = "hold" /\ canHold) \/ last'.op \in RichResetOps) ]_vars

\* a hold that was refused: the piece held before is still held, and the
\* active piece is still the active piece
C12_Witness ==
  /\ ruleset = "rich" /\ last.op = "hold" /\ ~canHold /\ locks = 0
  /\ lines = 10 /\ holdPiece = MakePiece(5) /\ piece.colorIdx = 1


---------------------------------------------------------------------------
(* Phases of a session, as the page shows them *)

Idle == ~started /\ countdown = Null /\ ~over
Countdown == ~started /\ countdown # Null
Running == started /\ ~over /\ ~paused
Paused == started /\ ~over /\ paused
Over == over

\* the supply as a new game has it: a preview of three pieces at their
\* spawn position, the first of them active, and the other four types in
\* the bag
FreshSupply ==
  /\ Len(nextPieces) = 3 /\ \A i \in 1..3 : AtSpawn(nextPieces[i])
  /\ piece = nextPieces[1]
  /\ Len(bag) = NTypes - 3
  /\ {nextPieces[i].colorIdx : i \in 1..3} \cup {bag[i] : i \in 1..Len(bag)}
       = 0..(NTypes - 1)

\* the steps in which a reset is asked for: the key 'r', taken or not, and
\* the buttons that call resetGame alone or with setPaused(false)
ResetIntentOps == {"resetKey", "resetKeyIgnored", "newGame", "exit"}

\* C13: a reset intent delivered in any phase is accepted and takes the
\* session to Idle with an empty board, a fresh piece supply and preview, an
\* empty held slot with holding allowed, and score, level and lines zero.
C13_ResetAnyPhase ==
  [][ last'.op \in ResetIntentOps =>
        /\ Idle'
        /\ grid' = emptyGrid /\ score' = 0 /\ level' = 0
        /\ (ruleset = "rich" =>
              /\ lines' = 0 /\ holdPiece' = NoPiece /\ canHold'
              /\ FreshSupply') ]_vars


\* C14: once the session is Over, gravity ticks and every intent other than
\* a reset leave board, active piece, preview, held piece, score, level and
\* lines as they are, and the session stays Over until a reset.
C14_OverIsTerminal ==
  [][ (over /\ last'.op \notin {"newGame", "exit", "replay", "resetKey"}) =>
        /\ over'
        /\ UNCHANGED <<grid, piece, nextPieces, nextPiece, holdPiece, score,
                       level, lines>> ]_vars

\* a gameplay key pressed on the game over screen of the richer ruleset
C14_Witness ==
  /\ ruleset = "rich" /\ over /\ started /\ ~paused
  /\ last.op = "playKeyIgnored"
  /\ Blocked(grid, piece)


\* the steps in which a pause is asked for: the key 'p', taken or not, and
\* the pause button
PauseIntentOps == {"pauseKey", "pauseKeyIgnored", "pauseBtn"}

\* C15: a pause intent toggles the phase between Running and Paused in both
\* directions, and changes nothing of board, active piece, preview, hold,
\* score, level or lines.
C15_PauseToggles ==
  [][ (last'.op \in PauseIntentOps /\ (Running \/ Paused)) =>
        /\ (Running => Paused')
        /\ (Paused => Running')
        /\ UNCHANGED <<grid, piece, nextPieces, nextPiece, holdPiece, score,
                       level, lines>> ]_vars


\* C16: while the session is Paused nothing but a reset changes the board
\* or the active piece: no gravity tick, no lock, and no effect of a move,
\* rotate, soft-drop, hard-drop or hold intent.
C16_PausedFreezes ==
  [][ (Paused /\ last'.op \notin {"newGame", "exit", "replay", "resetKey"}) =>
        UNCHANGED <<grid, piece>> ]_vars


\* the steps that run resetGame, in either ruleset
ResetOps == {"resetKey", "newGame", "exit", "replay"}

C18_CountdownGo ==
  [][ /\ (last'.op = "start" => Idle /\ countdown' = 3 /\ ~started')
      /\ (last'.op = "count" =>
            /\ Countdown
            /\ (countdown \in 1..3 => countdown' = countdown - 1 /\ ~started')
            /\ (countdown = 0 => countdown' = Null /\ started'))
      /\ (Countdown => UNCHANGED <<grid, piece, score>>) ]_vars


\* how often the type t is in the bag b
InBag(b, t) == Cardinality({i \in 1..Len(b) : b[i] = t})

\* C19: the draws made since a refill and the bag left hold each of the 7
\* types exactly once between them, for every outcome of the shuffle, so the
\* 7 draws that follow a refill are the 7 types once each; and the bag is
\* refilled only when it is empty.
C19_BagPolicy ==
  result.fn = "bag" =>
    /\ \A t \in 0..(NTypes - 1) : result.drawn[t] + InBag(bag, t) = 1
    /\ (Len(bag) = 0 => \A t \in 0..(NTypes - 1) : result.drawn[t] = 1)
    /\ (result.refilled => result.before = 0)

\* the eighth draw: the bag was empty, was refilled, and gave one piece
C19_Witness ==
  /\ result.fn = "bag" /\ result.draws = 8 /\ result.refilled
  /\ Len(bag) = NTypes - 1
  /\ bag # SubSeq(<<0, 1, 2, 3, 4, 5, 6>>, 1, NTypes - 1)


\* C20: in the richer ruleset the level is floor(lines / 10) before and after
\* every step, and unless the step is a reset neither the cumulative line
\* count nor the level decreases.
C20_LevelFromLines ==
  [][ ruleset = "rich" =>
        /\ level * 10 <= lines /\ lines < (level + 1) * 10
        /\ level' * 10 <= lines' /\ lines' < (level' + 1) * 10
        /\ (last'.op \notin RichResetOps =>
              lines' >= lines /\ level' >= level) ]_vars

\* a lock has cleared the tenth line of the session and the level went to 1
C20_Witness ==
  /\ ruleset = "rich" /\ last.lock /\ last.n > 0 /\ locks = 1
  /\ lines \in 10..13 /\ lines - last.n < 10 /\ level = 1


\* the step per level of the ruleset in play
StepPerLevel == IF ruleset = "rich" THEN 30 ELSE 20

\* max(100, 500 - l * step)
PeriodAt(l) ==
  IF 500 - l * StepPerLevel > 100 THEN 500 - l * StepPerLevel ELSE 100

\* the state has a gravity timer that runs with the period of its level,
\* which lies in 100..500
TimerFollowsLevel ==
  Running => period = PeriodAt(level) /\ period \in 100..500

\* C21: whenever the session is Running, the gravity timer runs with the
\* period max(100, 500 - level * step), step 30 in the richer and 20 in the
\* simple ruleset, which lies in 100..500; and a step that does not lower
\* the level does not lengthen the period.
C21_GravityPeriod ==
  [][ (ruleset = "rich" \/ ruleset = "simple") =>
        /\ TimerFollowsLevel /\ TimerFollowsLevel'
        /\ (Running /\ Running' /\ level' >= level => period' <= period) ]_vars

\* a lock has taken the richer ruleset from level 13 to level 14, where the
\* period reaches its floor of 100 ms
C21_Witness ==
  /\ ruleset = "rich" /\ Running /\ last.lock /\ last.n = 1
  /\ lines = 140 /\ level = 14 /\ period = 100


\* a soft-drop intent of the richer ruleset finds an O piece in its spawn
\* column over an empty board
SoftDropOfO ==
  /\ ruleset = "rich" /\ last'.op = "down"
  /\ grid = emptyGrid
  /\ piece = [MakePiece(0) EXCEPT !.y = piece.y]

\* the soft-drops of an O piece move it one row down while it is above row
\* `rest`, and the one that finds it on row `rest` locks it there
FloorAfter(rest) ==
  SoftDropOfO =>
    /\ piece.y \in 0..rest
    /\ (piece.y < rest =>
          piece' = Down(piece) /\ grid' = grid /\ ~last'.lock)
    /\ (piece.y = rest =>
          last'.lock /\ grid' = MergedAs(emptyGrid, piece))

\* C22 as stated: 19 soft-drops move the O piece from its spawn row down one
\* row each, and the 20th downward attempt is the first that is blocked and
\* locks the piece.
C22_FloorAfter19 == [][ FloorAfter(19) ]_vars

\* C22: on an empty 20x10 board an O piece, two rows high, goes from its
\* spawn row 0 down one row with each of 18 soft-drops, and the 19th
\* downward attempt is the first that is blocked; it locks the piece on rows
\* 18 and 19.
C22_FloorAfter18 == [][ FloorAfter(18) ]_vars

\* the O piece came down row by row and was locked on the floor of an
\* otherwise empty board by a soft-drop
C22_Witness ==
  /\ ruleset = "rich" /\ last.op = "down" /\ last.lock /\ last.n = 0 /\ locks = 1
  /\ intents = 0
  /\ grid = MergedAs(emptyGrid, [MakePiece(0) EXCEPT !.y = ROWS - 2])


\* a gravity tick of the simple ruleset finds the piece blocked from below
SimpleBlockedTick ==
  /\ ruleset = "simple" /\ last'.op = "tick"
  /\ Blocked(grid, Down(piece))

\* C23: in the simple ruleset a gravity tick that finds the piece blocked on
\* row y = 0 sets Over and leaves the board, the score, the level, the piece
\* and the preview as they are; one that finds it blocked on a row y >= 1
\* merges the piece, clears the full lines, spawns the preview piece, draws
\* a new preview piece and does not set Over.
C23_TopRowEndsGame ==
  [][ SimpleBlockedTick =>
        /\ (piece.y = 0 =>
              over' /\ ~last'.lock
              /\ UNCHANGED <<grid, score, level, piece, nextPiece>>)
        /\ (piece.y >= 1 =>
              /\ ~over' /\ last'.lock
              /\ grid' = ClearedAs(MergedAs(grid, piece))
              /\ piece' = nextPiece
              /\ AtSpawn(nextPiece')) ]_vars

\* a piece blocked on its spawn row has ended a game with a stack on the
\* board
C23_Witness ==
  /\ ruleset = "simple" /\ over /\ last.op = "tick" /\ ~last.lock
  /\ piece.y = 0 /\ locks = 0 /\ grid # emptyGrid /\ score = 360
  /\ ~Blocked(grid, piece) /\ Blocked(grid, Down(piece))

InColumns(p) == \A rc \in Covered(p) : rc[2] \in 0..(COLS - 1)

\* C25: for a piece within the columns of the board, merge returns the
\* board in which the cells under an occupied piece cell on a row >= 0 hold
\* piece.colorIdx + 1 and every other cell is as in the input; occupied cells
\* on negative rows are dropped; and the board passed in is left as it was.
\* Both merges, of the richer and of the simple ruleset.
C25_Merge ==
  (result.fn = "merge" /\ InColumns(piece)) =>
    /\ result.rich = MergedAs(result.input, piece)
    /\ result.simple = MergedAs(result.input, piece)
    /\ grid = result.input

\* a piece with occupied cells both above the top of the board and on cells
\* of the board that were not empty has been merged
C25_Witness ==
  /\ result.fn = "merge" /\ InColumns(piece)
  /\ \E rc \in Covered(piece) : rc[1] < 0
  /\ \E rc \in Covered(piece) :
       rc[1] >= 0 /\ result.input[rc[1] + 1][rc[2] + 1] \notin {0, piece.colorIdx + 1}
  /\ result.rich # result.input


\* C26: for each of the 7 base shapes, four rotations in a row give back the
\* shape, and every single rotation turns a matrix of R rows and C columns
\* into one of C rows and R columns; for the rotate of the richer and of the
\* simple ruleset.
C26_FourTurns ==
  result.fn = "rotate" =>
    \A turned \in {result.rich, result.simple} :
      /\ turned[4] = piece.shape
      /\ \A k \in 1..4 :
           LET before == IF k = 1 THEN piece.shape ELSE turned[k - 1]
           IN  /\ Len(turned[k]) = Len(before[1])
               /\ \A r \in 1..Len(turned[k]) : Len(turned[k][r]) = Len(before)

\* the L shape, 2 x 3, has been turned four times; the turns differ from it
C26_Witness ==
  /\ result.fn = "rotate" /\ piece.colorIdx = 5
  /\ Len(result.rich[1]) = 3 /\ Len(result.rich[1][1]) = 2
  /\ result.rich[2] # piece.shape /\ result.simple[2] # piece.shape
  /\ result.simple[4] = SHAPES[6]

\* C27: for every board and every piece that does not collide, the ghost is
\* the piece moved down: same shape, column and colour, on a row not above
\* the piece's; the ghost does not collide, nor does the piece on any row on
\* the way, and the ghost one row further down collides; the piece passed
\* in is left as it was.
C27_Ghost ==
  result.fn = "ghost" =>
    LET ghost == result.ghost
    IN  /\ ghost = [result.input EXCEPT !.y = ghost.y]
        /\ ghost.y >= result.input.y
        /\ \A y \in result.input.y..ghost.y :
             ~Blocked(grid, [result.input EXCEPT !.y = y])
        /\ Blocked(grid, Down(ghost))
        /\ piece = result.input

\* a rotated piece partly above the board has its ghost at the bottom of a
\* well, below the top of the stack
C27_Witness ==
  /\ result.fn = "ghost" /\ result.input.y < 0
  /\ Len(result.input.shape) > Len(result.input.shape[1])
  /\ result.ghost.y + Len(result.ghost.shape) = ROWS
  /\ \E r \in 1..ROWS : r - 1 < result.ghost.y + Len(result.ghost.shape) - 1
                          /\ grid[r] = HoleRow


\* after any run of draws, the next draw can return each of the types of T
AnyNext(T) ==
  \A t \in T : ENABLED (RandomPieceProbe /\ piece'.colorIdx = t)

\* C28 as stated: every draw of the pure-random policy returns a type index
\* in [0,6), whatever was drawn before, and the piece is built centred on
\* row 0.
C28_AnyOfSix ==
  result.fn = "randomPiece" =>
    /\ piece.colorIdx \in 0..5
    /\ AtSpawn(piece)
    /\ (result.draws < MaxDraws => AnyNext(0..5))

\* C28: every draw of the pure-random policy returns a type index in [0,7),
\* that is one of the 7 types 0..6; whatever was drawn before, each of the 7
\* can come next; and the piece is built with its base shape at
\* x = floor((COLS - shape width) / 2), y = 0.
C28_AnyOfSeven ==
  result.fn = "randomPiece" =>
    /\ piece.colorIdx \in 0..(NTypes - 1)
    /\ AtSpawn(piece)
    /\ (result.draws < MaxDraws => AnyNext(0..(NTypes - 1)))

\* the J piece, type 6, has been drawn twice in a row
C28_Witness ==
  /\ result.fn = "randomPiece" /\ result.draws >= 2
  /\ piece.colorIdx = 6 /\ result.before = 6
  /\ piece.x = 3 /\ piece.y = 0


\* C29 as stated: in every Running state of either ruleset the active piece
\* overlaps no occupied cell of the board and is within its walls and above
\* its floor.
C29_NoOverlap ==
  (ruleset \in {"rich", "simple"} /\ Running /\ piece # NoPiece) =>
    ~Blocked(grid, piece)


\* the four occupied cells of p are cells of the board
InBoard(p) ==
  /\ Cardinality(Covered(p)) = 4
  /\ \A rc \in Covered(p) : rc[1] \in 0..(ROWS - 1) /\ rc[2] \in 0..(COLS - 1)

\* C30: in every state of either ruleset the occupied cells of the active
\* piece are in columns 0..COLS-1 and rows 0..ROWS-1, before and after every
\* step; no cell is on a negative row, so a lock writes all four cells of
\* the piece into the board.
C30_PieceInBoard ==
  [][ ((ruleset = "rich" \/ ruleset = "simple") /\ piece # NoPiece) =>
        /\ InBoard(piece) /\ InBoard(piece')
        /\ (last'.lock =>
              LET merged == IF ruleset = "rich" THEN merge(grid, piece)
                            ELSE mergeSimple(grid, piece)
              IN  \A rc \in Covered(piece) :
                    merged[rc[1] + 1][rc[2] + 1] = piece.colorIdx + 1) ]_vars

\* the I piece was locked on row 0, the highest a piece can be, and its four
\* cells are on the board
C30_Witness ==
  /\ ruleset = "rich" /\ last.lock /\ locks = 1 /\ over
  /\ \A c \in 4..7 : grid[1][c] = 2
  /\ grid[2] = HoleRow


\* a session of the richer ruleset as the initialisation effect or a reset
\* leaves it
FreshSession ==
  /\ ruleset = "rich" /\ Idle /\ grid = emptyGrid
  /\ last.op \in {"init"} \cup RichResetOps

\* C31 as stated: in the richer ruleset the pieces become active in the
\* order they were drawn, each once: after the initialisation and after a
\* reset the active piece is the first draw and the head of the preview is
\* the second, so the piece a first lock brings into play is of another
\* type than the first.
C31_DrawOrder ==
  [][ ruleset = "rich" =>
        /\ (FreshSession => piece.colorIdx # nextPieces[1].colorIdx)
        /\ (FreshSession' => piece'.colorIdx # nextPieces'[1].colorIdx)
        /\ ((last'.lock /\ locks = 0 /\ holdPiece = NoPiece /\ Len(bag) >= 3) =>
              piece'.colorIdx # piece.colorIdx) ]_vars


\* the intents C32 names: sideways moves, rotations, hard drops, holds
PlayerIntentOps == {"left", "right", "rotate", "drop", "dropTouch", "hold"}

\* C32 as stated: in Running a move, rotate, hard-drop or hold intent does
\* not restart the gravity timer: the interval that is live before the
\* intent is the one that is live after it, so the next tick comes one
\* period after the previous one.
C32_InputKeepsTimer ==
  [][ ((ruleset = "rich" \/ ruleset = "simple") /\ Running /\ Running'
         /\ last'.op \in PlayerIntentOps) => ~rearmed' ]_vars

\* the same for the simple ruleset alone, whose gravity effect does not
\* depend on the active piece
SimpleInputKeepsTimer ==
  [][ (ruleset = "simple" /\ Running /\ Running'
         /\ last'.op \in PlayerIntentOps) => ~rearmed' ]_vars


\* C33 as stated: the paused flag is set only while the session is started
\* and not over: a pause intent in Idle, Countdown or Over changes nothing,
\* a reset leaves the session unpaused, and a countdown that completes
\* enters Running, never Paused.
C33_PausedOnlyInGame ==
  [][ (ruleset = "rich" \/ ruleset = "simple") =>
        /\ (paused' => started' /\ ~over')
        /\ ((last'.op \in {"pauseKey", "pauseBtn"} /\ (Idle \/ Countdown \/ Over)) =>
              paused' = paused)
        /\ (last'.op \in ResetOps => ~paused')
        /\ ((last'.op = "count" /\ ~started /\ started') => Running') ]_vars

\* the part of C33 about resets alone: a reset leaves the session unpaused
ResetUnpauses ==
  [][ ((ruleset = "rich" \/ ruleset = "simple") /\ last'.op \in ResetOps) =>
        ~paused' ]_vars

\* the part of C33 about the countdown alone
CountdownEntersRunning ==
  [][ ((ruleset = "rich" \/ ruleset = "simple")
         /\ last'.op = "count" /\ ~started /\ started') => Running' ]_vars


---------------------------------------------------------------------------
(* Unattended sessions: after the start nobody touches the game, and the  *)
(* gravity interval, which setInterval fires for as long as it is live,   *)
(* is all that runs.                                                       *)
NextUnattended ==
  \/ startGame
  \/ CountdownTick
  \/ GravityTick
  \/ SimpleGravityTick

\* setInterval: a live interval goes on firing
IntervalsFire ==
  /\ WF_vars(CountdownTick)
  /\ WF_vars(GravityTick)
  /\ WF_vars(SimpleGravityTick)

SpecUnattended == Init /\ [][NextUnattended]_vars /\ IntervalsFire

\* C34: in either ruleset a running session that is never paused and gets
\* no player intent is brought to Over by the gravity ticks alone, whatever
\* pieces the supply produces.
C34_GravityEndsGame == Running ~> Over

\* a session of the simple ruleset that began on the empty board and that
\* nine unattended locks and a blocked spawn have ended
C34_Witness ==
  /\ ruleset = "simple" /\ Over /\ last.op = "tick" /\ ~last.lock
  /\ locks = 9 /\ intents = 0 /\ piece.y = 0

=============================================================================
